---- MODULE Spec2Model ----
(***************************************************************************)
(* A model of project.py: classification of a context-free grammar as      *)
(* LL(1) / SLR(1) (FIRST, FOLLOW, the LL(1) test and table, the canonical  *)
(* LR(0) collection, the SLR(1) table) and the two table-driven parse      *)
(* simulators, driven by main().                                           *)
(*                                                                         *)
(* Python containers are modelled as follows.  A dict is a function whose  *)
(* DOMAIN is the set of its keys; a dict that is iterated (the grammar) is *)
(* a sequence of its entries in insertion order.  A list is a sequence;    *)
(* Python's 0-based state and production numbers are kept, so the state    *)
(* numbered i is states[i+1].  A set is a set; wherever the code's result  *)
(* depends on the order in which a set is enumerated, the model takes      *)
(* every order (a nondeterministic choice).                                *)
(***************************************************************************)
EXTENDS Integers, Sequences, FiniteSets, TLC

VARIABLES
    pc,         \* position of main(): "start", "first", "follow", "check",
                \* "lr0", "slr", "dispatch", "menu", "tests", "parse", "done"
    grammar,    \* main's grammar (augmented once pc has left "start")
    first,      \* calculate_first_sets' first
    follow,     \* calculate_follow_sets' follow
    is_ll1,     \* main's is_ll1
    ll1_table,  \* main's ll1_table (<<>> until it is built)
    states,     \* calculate_canonical_lr0's list of item sets
    trans,      \* calculate_canonical_lr0's trans
    slr_table,  \* construct_slr_table's table
    slr_prods,  \* construct_slr_table's prods
    is_slr1,    \* main's is_slr1
    out,        \* the line main() printed last ("" before the first one)
    sim,        \* the running simulator call: its locals
    raw,        \* the grammar as read (convert_to_productions' result)
    run,        \* which run of the program on this grammar this is
    prev        \* what the previous run of the program computed

vars == <<pc, grammar, first, follow, is_ll1, ll1_table, states, trans,
          slr_table, slr_prods, is_slr1, out, sim, raw, run, prev>>

---------------------------------------------------------------------------
(* Bounds of the model. *)

\* longest test string given to a simulator
MaxInputLen == 3

\* most states of one automaton that repeat the items of an earlier state
MaxCopies == 1

\* the program is run at most this many times on one grammar
MaxRuns == 2

---------------------------------------------------------------------------
(* Small helpers. *)

Range(s) == {s[i] : i \in DOMAIN s}

Put(d, k, v) == [x \in (DOMAIN d) \cup {k} |-> IF x = k THEN v ELSE d[x]]

PutAll(d, ks, v) == [x \in (DOMAIN d) \cup ks |-> IF x \in ks THEN v ELSE d[x]]

EmptyDict == [x \in {} |-> {}]

Reverse(s) == [i \in 1..Len(s) |-> s[Len(s) + 1 - i]]

SeqsUpTo(S, n) == UNION {[1..k -> S] : k \in 1..n}

RECURSIVE Perms(_)
Perms(S) ==
    IF S = {} THEN {<<>>}
    ELSE UNION {{<<x>> \o p : p \in Perms(S \ {x})} : x \in S}

RECURSIVE Factorial(_)
Factorial(n) == IF n <= 1 THEN 1 ELSE n * Factorial(n - 1)

---------------------------------------------------------------------------
(* The grammars the model reads.  read_grammar and convert_to_productions  *)
(* produce a dict from nonterminal to a list of alternatives, each a list  *)
(* of one-character symbols, 'e' alone standing for epsilon.               *)

\* right-hand sides of the generated one-nonterminal grammars
AltPool ==
    { <<"e">>, <<"a">>, <<"b">>, <<"S", "a">>, <<"a", "S">>, <<"S", "S">>,
      <<"a", "a">>, <<"b", "S">> }

\* one alternative, or two different ones in either order
AltLists == {<<x>> : x \in AltPool}
            \cup {p \in AltPool \X AltPool : p[1] # p[2]}

OneNTGrammars == {<<[nt |-> "S", alts |-> al]>> : al \in AltLists}

\* grammars with several nonterminals
ManyNTGrammars ==
    { << [nt |-> "S", alts |-> << <<"A", "B">> >>],
         [nt |-> "A", alts |-> << <<"a">> >>],
         [nt |-> "B", alts |-> << <<"b">> >>] >>,
      << [nt |-> "S", alts |-> << <<"A", "a">> >>],
         [nt |-> "A", alts |-> << <<"a">>, <<"e">> >>] >>,
      << [nt |-> "S", alts |-> << <<"A", "b">> >>],
         [nt |-> "A", alts |-> << <<"a">>, <<"e">> >>] >>,
      << [nt |-> "S", alts |-> << <<"A", "A">>, <<"b">> >>],
         [nt |-> "A", alts |-> << <<"e">> >>] >>,
      << [nt |-> "S", alts |-> << <<"a", "A">> >>],
         [nt |-> "A", alts |-> << <<"b">> >>] >>,
      << [nt |-> "S", alts |-> << <<"A">>, <<"b">> >>],
         [nt |-> "A", alts |-> << <<"A">>, <<"a">> >>] >>,
      << [nt |-> "S", alts |-> << <<"A">> >>],
         [nt |-> "A", alts |-> << <<"A", "a">> >>] >>,
      << [nt |-> "S", alts |-> << <<"S", "S">>, <<"S", "a">>, <<"a">> >>] >>,
      << [nt |-> "S", alts |-> << <<"e">>, <<"a", "S">>, <<"b">> >>] >>,
      << [nt |-> "S", alts |-> << <<"A", "S">>, <<"b">> >>],
         [nt |-> "A", alts |-> << <<"a">>, <<"e">> >>] >> }

Grammars == OneNTGrammars \cup ManyNTGrammars

\* characters of the test strings: terminals, the epsilon marker and a
\* character that names a nonterminal
InputAlphabet == {"a", "b", "e", "A"}

\* the terminals of the grammars above
Terminals == {"a", "b"}

\* The test strings: main() passes only non-empty lines to a simulator.
\* The longest strings are made of terminals only.
Inputs == SeqsUpTo(InputAlphabet, MaxInputLen - 1)
          \cup [1..MaxInputLen -> Terminals]

---------------------------------------------------------------------------
(* The grammar dict. *)

NTs(g) == {g[i].nt : i \in DOMAIN g}

Alts(g, A) == g[CHOOSE i \in DOMAIN g : g[i].nt = A].alts

\* the productions in the order grammar.items() and the alternatives give
RECURSIVE ProdsFrom(_, _)
ProdsFrom(g, k) ==
    IF k > Len(g) THEN <<>>
    ELSE [i \in 1..Len(g[k].alts) |-> <<g[k].nt, g[k].alts[i]>>]
         \o ProdsFrom(g, k + 1)

ProdList(g) == ProdsFrom(g, 1)

---------------------------------------------------------------------------
(* main: productive_nts *)

productive_base(g) ==
    {A \in NTs(g) : \E i \in DOMAIN Alts(g, A) :
        LET prod == Alts(g, A)[i]
        IN  \A n \in DOMAIN prod : prod[n] \notin NTs(g) \/ prod[n] = "e"}

\* one pass of the while loop, the set growing in place from entry k on
RECURSIVE productive_pass(_, _, _)
productive_pass(g, k, productive) ==
    IF k > Len(g) THEN productive
    ELSE LET A == g[k].nt
             add == A \notin productive
                    /\ \E i \in DOMAIN g[k].alts :
                          \A n \in DOMAIN g[k].alts[i] :
                              \/ g[k].alts[i][n] \notin NTs(g)
                              \/ g[k].alts[i][n] \in productive
         IN  productive_pass(g, k + 1,
                             IF add THEN productive \cup {A} ELSE productive)

RECURSIVE productive_loop(_, _)
productive_loop(g, productive) ==
    LET next == productive_pass(g, 1, productive)
    IN  IF next = productive THEN productive ELSE productive_loop(g, next)

productive_nts(g) == productive_loop(g, productive_base(g))

\* grammar = {aug: [[start]], **grammar}
Augment(g) == <<[nt |-> g[1].nt \o "'", alts |-> << <<g[1].nt>> >>]>> \o g

---------------------------------------------------------------------------
(* FIRST *)

RECURSIVE first_of_string_from(_, _, _, _)
first_of_string_from(alpha, fst, k, result) ==
    IF k > Len(alpha) THEN result \cup {"e"}
    ELSE LET X == alpha[k]
         IN  IF X \notin DOMAIN fst THEN result \cup {X}
             ELSE LET r2 == result \cup (fst[X] \ {"e"})
                  IN  IF "e" \notin fst[X] THEN r2
                      ELSE first_of_string_from(alpha, fst, k + 1, r2)

\* first_of_string that returns after the first symbol of alpha
first_of_string_head(alpha, fst) ==
    first_of_string_from(<<alpha[1]>>, fst, 1, {})

first_of_string(alpha, fst) == first_of_string_from(alpha, fst, 1, {})

EmptySets(g) == [A \in NTs(g) |-> {}]

\* first_update with `first[A] = temp` in place of `first[A] |= temp`
first_update_assign(fst, A, prod) ==
    IF prod = <<"e">>
    THEN IF "e" \notin fst[A]
         THEN <<[fst EXCEPT ![A] = @ \cup {"e"}], TRUE>>
         ELSE <<fst, FALSE>>
    ELSE LET temp == first_of_string(prod, fst)
         IN  IF ~(temp \subseteq fst[A])
             THEN <<[fst EXCEPT ![A] = temp], TRUE>>
             ELSE <<fst, FALSE>>

\* the contribution of one production to first[A] (lines 85-94)
first_update(fst, A, prod) ==
    IF prod = <<"e">>
    THEN IF "e" \notin fst[A]
         THEN <<[fst EXCEPT ![A] = @ \cup {"e"}], TRUE>>
         ELSE <<fst, FALSE>>
    ELSE LET temp == first_of_string(prod, fst)
         IN  IF ~(temp \subseteq fst[A])
             THEN <<[fst EXCEPT ![A] = @ \cup temp], TRUE>>
             ELSE <<fst, FALSE>>

\* one pass of the while loop of calculate_first_sets: <<first, changed>>
RECURSIVE first_pass(_, _, _, _)
first_pass(pl, k, fst, changed) ==
    IF k > Len(pl) THEN <<fst, changed>>
    ELSE LET r == first_update(fst, pl[k][1], pl[k][2])
         IN  first_pass(pl, k + 1, r[1], changed \/ r[2])

RECURSIVE calculate_first_sets_from(_, _)
calculate_first_sets_from(g, fst) ==
    LET r == first_pass(ProdList(g), 1, fst, FALSE)
    IN  IF r[2] THEN calculate_first_sets_from(g, r[1]) ELSE r[1]

calculate_first_sets(g) == calculate_first_sets_from(g, EmptySets(g))

---------------------------------------------------------------------------
(* FOLLOW *)

\* FollowSeed without `follow[start].add('$')`
FollowSeedNoEnd(g, start) == EmptySets(g)

FollowSeed(g, start) == [EmptySets(g) EXCEPT ![start] = {"$"}]

\* the update of follow[B] for the occurrence prod[i] = B (lines 112-122)
follow_update(fst, fol, A, prod, i) ==
    LET B == prod[i]
        beta == SubSeq(prod, i + 1, Len(prod))
        fb == first_of_string(beta, fst)
        f1 == IF beta # <<>>
              THEN [fol EXCEPT ![B] = @ \cup (fb \ {"e"})]
              ELSE fol
        f2 == IF beta = <<>> \/ "e" \in fb
              THEN [f1 EXCEPT ![B] = @ \cup f1[A]]
              ELSE f1
    IN  <<f2, Cardinality(f2[B]) > Cardinality(fol[B])>>

RECURSIVE follow_prod(_, _, _, _, _, _, _)
follow_prod(g, fst, fol, changed, A, prod, i) ==
    IF i > Len(prod) THEN <<fol, changed>>
    ELSE IF prod[i] \in NTs(g)
         THEN LET r == follow_update(fst, fol, A, prod, i)
              IN  follow_prod(g, fst, r[1], changed \/ r[2], A, prod, i + 1)
         ELSE follow_prod(g, fst, fol, changed, A, prod, i + 1)

\* one pass of the while loop of calculate_follow_sets: <<follow, changed>>
RECURSIVE follow_pass(_, _, _, _, _, _)
follow_pass(g, fst, pl, k, fol, changed) ==
    IF k > Len(pl) THEN <<fol, changed>>
    ELSE LET r == follow_prod(g, fst, fol, changed, pl[k][1], pl[k][2], 1)
         IN  follow_pass(g, fst, pl, k + 1, r[1], r[2])

RECURSIVE calculate_follow_sets_from(_, _, _)
calculate_follow_sets_from(g, fst, fol) ==
    LET r == follow_pass(g, fst, ProdList(g), 1, fol, FALSE)
    IN  IF r[2] THEN calculate_follow_sets_from(g, fst, r[1]) ELSE r[1]

calculate_follow_sets(g, fst, start) ==
    calculate_follow_sets_from(g, fst, FollowSeed(g, start))

---------------------------------------------------------------------------
(* LL(1) *)

\* check_ll1 without the test of line 136
check_ll1_no_pairs(g, fst, fol) ==
    \A A \in NTs(g) :
        LET prods == Alts(g, A)
        IN  \A i \in DOMAIN prods :
                LET f_i == first_of_string(prods[i], fst)
                IN  ~("e" \in f_i /\ f_i \cap fol[A] # {})

\* the returns of check_ll1 (a False is returned at the first failing test;
\* True is returned when no test fails)
check_ll1(g, fst, fol) ==
    \A A \in NTs(g) :
        LET prods == Alts(g, A)
        IN  \A i \in DOMAIN prods :
                LET f_i == first_of_string(prods[i], fst)
                IN  /\ \A j \in (i + 1)..Len(prods) :
                           f_i \cap first_of_string(prods[j], fst) = {}
                    /\ ~("e" \in f_i /\ f_i \cap fol[A] # {})

\* the keys table[A] gets from one production (lines 150-155)
ll1_cells(fst, fol, A, prod) ==
    LET fp == first_of_string(prod, fst)
    IN  (fp \ {"e"}) \cup (IF "e" \in fp THEN fol[A] ELSE {})

RECURSIVE build_ll1_table_from(_, _, _, _, _)
build_ll1_table_from(fst, fol, pl, k, table) ==
    IF k > Len(pl) THEN table
    ELSE LET A == pl[k][1]
             prod == pl[k][2]
             row == PutAll(table[A], ll1_cells(fst, fol, A, prod), prod)
         IN  build_ll1_table_from(fst, fol, pl, k + 1,
                                  [table EXCEPT ![A] = row])

build_ll1_table(g, fst, fol) ==
    build_ll1_table_from(fst, fol, ProdList(g), 1,
                         [A \in NTs(g) |-> [x \in {} |-> <<>>]])

---------------------------------------------------------------------------
(* LR(0) items and the canonical collection.  An item is the tuple        *)
(* <<A, prod, pos>> of the code, pos counted from 0.                      *)

\* the items one iteration of the while loop of calculate_closure adds
closure_step(closure, g) ==
    closure \cup
    UNION {{<<it[2][it[3] + 1], beta, 0>> :
               beta \in Range(Alts(g, it[2][it[3] + 1]))} :
           it \in {x \in closure : x[3] < Len(x[2]) /\ x[2][x[3] + 1] \in NTs(g)}}

RECURSIVE calculate_closure(_, _)
calculate_closure(items, g) ==
    LET new == closure_step(items, g)
    IN  IF new = items THEN items ELSE calculate_closure(new, g)

\* {prod[pos] for (A, prod, pos) in I if pos < len(prod)}
symbols_of(I) == {it[2][it[3] + 1] : it \in {x \in I : x[3] < Len(x[2])}}

moved_of(I, X) ==
    {<<it[1], it[2], it[3] + 1>> :
        it \in {x \in I : x[3] < Len(x[2]) /\ x[2][x[3] + 1] = X}}

\* The orders in which `for X in symbols` may enumerate a set of symbols:
\* a set of strings is enumerated in an order fixed by the hashes of the
\* process, taken here to be one of these two.
SymbolOrders ==
    { <<"S'", "S", "A", "B", "a", "b", "e">>,
      <<"e", "b", "a", "B", "A", "S", "S'">> }

\* the symbols of a state in the order ord
InOrder(ord, S) == SelectSeq(ord, LAMBDA X : X \in S)

\* The items a goto result has next to its closure items: the ones that
\* were inserted first, in the order the source state enumerated them.
kernel_of(J) == {it \in J : it[3] > 0}

\* How many different tuples tuple(J) can be for one item set J: the order
\* of a set follows from the order its elements were inserted in, the
\* closure items are inserted in an order the kernel fixes, and the kernel
\* items are inserted in the order of the state the goto starts from.
orders_of(J) == Factorial(Cardinality(kernel_of(J)))

\* the states of the list that repeat the items of an earlier state
copies_in(st) == Len(st) - Cardinality(Range(st))

\* Lines 219-226 for one (i, X).  A configuration is <<states, trans,
\* changed>>.  idx_map is keyed by tuple(J); J computed again from the same
\* state i gives the same tuple, so a pair (i, X) that has its transition
\* keeps it.  For a new pair, tuple(J) either is the tuple of a state that
\* holds the same items (the pair goes to that state) or it is not the
\* tuple of any state (J is appended, possibly as a second copy of an item
\* set the list already holds).
goto_step(g, cfg, i, X) ==
    LET st == cfg[1]
        tr == cfg[2]
        J == calculate_closure(moved_of(st[i + 1], X), g)
        same == {k \in 0..(Len(st) - 1) : st[k + 1] = J}
    IN  IF <<i, X>> \in DOMAIN tr THEN {cfg}
        ELSE {<<st, Put(tr, <<i, X>>, k), cfg[3]>> : k \in same}
             \cup (IF same = {}
                      \/ (Cardinality(same) < orders_of(J)
                          /\ copies_in(st) < MaxCopies)
                   THEN {<<Append(st, J), Put(tr, <<i, X>>, Len(st)), TRUE>>}
                   ELSE {})

\* for X in symbols, from the k-th symbol on, over every configuration
RECURSIVE goto_all(_, _, _, _, _)
goto_all(g, cfgs, i, syms, k) ==
    IF k > Len(syms) THEN cfgs
    ELSE goto_all(g, UNION {goto_step(g, c, i, syms[k]) : c \in cfgs},
                  i, syms, k + 1)

\* for i, I in enumerate(list(states)): the states i..n-1 of the snapshot
RECURSIVE lr0_pass(_, _, _, _, _)
lr0_pass(g, cfgs, i, n, ord) ==
    IF i >= n THEN cfgs
    ELSE lr0_pass(g,
                  UNION {goto_all(g, {c}, i,
                                  InOrder(ord, symbols_of(c[1][i + 1])), 1) :
                         c \in cfgs},
                  i + 1, n, ord)

\* while changed
RECURSIVE lr0_loop(_, _, _)
lr0_loop(g, cfg, ord) ==
    UNION {IF c[3] THEN lr0_loop(g, c, ord) ELSE {c} :
           c \in lr0_pass(g, {<<cfg[1], cfg[2], FALSE>>}, 0, Len(cfg[1]), ord)}

\* every <<states, trans>> calculate_canonical_lr0 can return
calculate_canonical_lr0(g, start, ord) ==
    LET init == <<start, Alts(g, start)[1], 0>>
        st0 == <<calculate_closure({init}, g)>>
        tr0 == [x \in {} |-> 0]
    IN  {<<c[1], c[2]>> : c \in lr0_loop(g, <<st0, tr0, TRUE>>, ord)}

---------------------------------------------------------------------------
(* The SLR(1) table. *)

\* prods of construct_slr_table
slr_productions(g) == ProdList(g)

\* pidx[(A, prod)]: the number set last for that pair
pidx_of(prods, A, prod) ==
    CHOOSE k \in 0..(Len(prods) - 1) :
        /\ prods[k + 1] = <<A, prod>>
        /\ \A m \in (k + 1)..(Len(prods) - 1) : prods[m + 1] # <<A, prod>>

\* item_writes that leaves out the cell of a nonterminal behind the dot
item_writes_no_goto(i, it, tr, prods, fol, start) ==
    IF it[3] < Len(it[2])
    THEN IF /\ <<i, it[2][it[3] + 1]>> \in DOMAIN tr
            /\ it[2][it[3] + 1] \notin DOMAIN fol
         THEN <<{it[2][it[3] + 1]}, <<"shift", tr[<<i, it[2][it[3] + 1]>>]>> >>
         ELSE <<{}, <<"shift", 0>> >>
    ELSE IF it[1] = start
         THEN <<{"$"}, <<"accept">> >>
         ELSE <<fol[it[1]], <<"reduce", pidx_of(prods, it[1], it[2])>> >>

\* What one item of state i writes (lines 246-256): the cells and the action.
item_writes(i, it, tr, prods, fol, start) ==
    IF it[3] < Len(it[2])
    THEN IF <<i, it[2][it[3] + 1]>> \in DOMAIN tr
         THEN <<{it[2][it[3] + 1]}, <<"shift", tr[<<i, it[2][it[3] + 1]>>]>> >>
         ELSE <<{}, <<"shift", 0>> >>
    ELSE IF it[1] = start
         THEN <<{"$"}, <<"accept">> >>
         ELSE <<fol[it[1]], <<"reduce", pidx_of(prods, it[1], it[2])>> >>

writers_of(i, I, tr, prods, fol, start) ==
    {item_writes(i, it, tr, prods, fol, start) : it \in I}

\* the writers that share a cell with a writer of another action
clashing(W) == {w \in W : \E v \in W : v # w /\ v[1] \cap w[1] # {}}

RECURSIVE write_all(_, _, _)
write_all(row, ws, k) ==
    IF k > Len(ws) THEN row
    ELSE write_all(PutAll(row, ws[k][1], ws[k][2]), ws, k + 1)

\* Every table[i] the loop over the items of state i can leave: the action
\* a cell keeps is the one written last, and `for (A, prod, pos) in I`
\* enumerates a set.  Writers that clash with no other writer give the same
\* row in every order, so only the clashing ones are permuted.
rows_of(i, I, tr, prods, fol, start) ==
    LET W == writers_of(i, I, tr, prods, fol, start)
        quiet == W \ clashing(W)
        base == [a \in UNION {w[1] : w \in quiet} |->
                    (CHOOSE w \in quiet : a \in w[1])[2]]
    IN  {write_all(base, p, 1) : p \in Perms(clashing(W))}

RECURSIVE slr_tables_from(_, _, _, _, _, _)
slr_tables_from(st, tr, prods, fol, start, i) ==
    IF i >= Len(st) THEN {<<>>}
    ELSE {<<row>> \o rest :
             row \in rows_of(i, st[i + 1], tr, prods, fol, start),
             rest \in slr_tables_from(st, tr, prods, fol, start, i + 1)}

\* every <<table, prods>> construct_slr_table can return
construct_slr_table(st, tr, g, fol, start) ==
    {<<t, slr_productions(g)>> :
        t \in slr_tables_from(st, tr, slr_productions(g), fol, start, 0)}

---------------------------------------------------------------------------
(* The simulators.  sim holds the locals of the running call: stack, inp  *)
(* and ip (counted from 0), and res, "run" while the loop runs and then   *)
(* what the call did: "yes" (returned True), "no" (returned False),       *)
(* "error" (raised an exception) or "loop" (can never return).            *)
(* anc is not a local of the code: for predictive_parse it holds, beside  *)
(* each stack symbol, the nonterminals expanded since the cursor last     *)
(* moved that the symbol descends from.  The parser is deterministic, so  *)
(* a nonterminal that comes to the top among its own ancestors is         *)
(* expanded the same way again without end.                               *)

NoSim == [mode |-> "none", s |-> <<>>, stack |-> <<>>, anc |-> <<>>,
          inp |-> <<>>, ip |-> 0, res |-> "none"]

Ended(c, r) == [c EXCEPT !.res = r]

\* stack = [start, '$']; inp = list(s) + ['$']; ip = 0
predictive_init(s, start) ==
    [mode |-> "ll", s |-> s, stack |-> <<start, "$">>, anc |-> <<{}, {}>>,
     inp |-> s \o <<"$">>, ip |-> 0, res |-> "run"]

\* predictive_step without `ip += 1` when the top matches the input
predictive_step_no_advance(table, c) ==
    IF c.stack = <<>> THEN Ended(c, "no")
    ELSE LET top == Head(c.stack)
             rest == Tail(c.stack)
             cur == c.inp[c.ip + 1]
         IN  IF top = cur /\ cur = "$" THEN Ended([c EXCEPT !.stack = rest,
                                                          !.anc = Tail(c.anc)], "yes")
             ELSE IF top = cur
                  THEN [c EXCEPT !.stack = rest,
                                 !.anc = [k \in 1..Len(rest) |-> {}]]
             ELSE IF top \in DOMAIN table /\ cur \in DOMAIN table[top]
                  THEN LET prod == table[top][cur]
                           up == Head(c.anc) \cup {top}
                       IN  IF top \in Head(c.anc) THEN Ended(c, "loop")
                           ELSE IF prod # <<"e">>
                                THEN [c EXCEPT !.stack = prod \o rest,
                                               !.anc = [k \in 1..Len(prod) |-> up]
                                                       \o Tail(c.anc)]
                                ELSE [c EXCEPT !.stack = rest,
                                               !.anc = Tail(c.anc)]
             ELSE Ended([c EXCEPT !.stack = rest, !.anc = Tail(c.anc)], "no")

\* one iteration of the while loop of predictive_parse (lines 167-181)
predictive_step(table, c) ==
    IF c.stack = <<>> THEN Ended(c, "no")
    ELSE LET top == Head(c.stack)
             rest == Tail(c.stack)
             cur == c.inp[c.ip + 1]
         IN  IF top = cur /\ cur = "$" THEN Ended([c EXCEPT !.stack = rest,
                                                          !.anc = Tail(c.anc)], "yes")
             ELSE IF top = cur
                  THEN [c EXCEPT !.stack = rest, !.ip = c.ip + 1,
                                 !.anc = [k \in 1..Len(rest) |-> {}]]
             ELSE IF top \in DOMAIN table /\ cur \in DOMAIN table[top]
                  THEN LET prod == table[top][cur]
                           up == Head(c.anc) \cup {top}
                       IN  IF top \in Head(c.anc) THEN Ended(c, "loop")
                           ELSE IF prod # <<"e">>
                                THEN [c EXCEPT !.stack = prod \o rest,
                                               !.anc = [k \in 1..Len(prod) |-> up]
                                                       \o Tail(c.anc)]
                                ELSE [c EXCEPT !.stack = rest,
                                               !.anc = Tail(c.anc)]
             ELSE Ended([c EXCEPT !.stack = rest, !.anc = Tail(c.anc)], "no")

\* the whole call predictive_parse(table, s, start): what it does
RECURSIVE predictive_run(_, _)
predictive_run(table, c) ==
    IF c.res # "run" THEN c.res
    ELSE predictive_run(table, predictive_step(table, c))

predictive_parse(table, s, start) ==
    predictive_run(table, predictive_init(s, start))

\* stack = [0]; inp = list(s) + ['$']; ip = 0
lr_init(s) ==
    [mode |-> "lr", s |-> s, stack |-> <<0>>, anc |-> <<>>,
     inp |-> s \o <<"$">>, ip |-> 0, res |-> "run"]

\* stack after `for _ in beta: stack.pop()`
Popped(stack, n) == SubSeq(stack, 1, Len(stack) - n)

\* lr_reduce without `for _ in beta: stack.pop()`
lr_reduce_no_pop(table, productions, c, p) ==
    LET A == productions[p + 1][1]
        t == c.stack[Len(c.stack)]
    IN  IF A \notin DOMAIN table[t + 1] THEN Ended(c, "error")
        ELSE IF Len(table[t + 1][A]) < 2 THEN Ended(c, "error")
        ELSE [c EXCEPT !.stack = Append(c.stack, table[t + 1][A][2])]

\* the reduce branch of lr_parse (lines 276-279)
lr_reduce(table, productions, c, p) ==
    LET A == productions[p + 1][1]
        beta == productions[p + 1][2]
    IN  IF Len(c.stack) <= Len(beta) THEN Ended(c, "error")
        ELSE LET st == Popped(c.stack, Len(beta))
                 t == st[Len(st)]
             IN  IF A \notin DOMAIN table[t + 1] THEN Ended(c, "error")
                 ELSE IF Len(table[t + 1][A]) < 2 THEN Ended(c, "error")
                 ELSE [c EXCEPT !.stack = Append(st, table[t + 1][A][2])]

\* one iteration of the while loop of lr_parse (lines 268-283)
lr_step(table, productions, c) ==
    IF c.ip >= Len(c.inp) THEN Ended(c, "error")
    ELSE LET state == c.stack[Len(c.stack)]
             a == c.inp[c.ip + 1]
         IN  IF a \in DOMAIN table[state + 1]
             THEN LET act == table[state + 1][a]
                  IN  IF act[1] = "shift"
                      THEN [c EXCEPT !.stack = Append(c.stack, act[2]),
                                     !.ip = c.ip + 1]
                      ELSE IF act[1] = "reduce"
                           THEN lr_reduce(table, productions, c, act[2])
                           ELSE Ended(c, "yes")
             ELSE Ended(c, "no")

\* The whole call lr_parse(s, slr_table, productions): what it does.  The
\* loop has no state but stack and ip, so a call that comes back to locals
\* it has had never returns.
RECURSIVE lr_run(_, _, _, _)
lr_run(table, productions, c, seen) ==
    IF c.res # "run" THEN c.res
    ELSE IF c \in seen THEN "loop"
    ELSE lr_run(table, productions, lr_step(table, productions, c),
                seen \cup {c})

lr_parse(s, table, productions) == lr_run(table, productions, lr_init(s), {})

---------------------------------------------------------------------------
(* main() *)

MsgNeither == "Grammar is neither LL(1) nor SLR(1)."
MsgLL1 == "Grammar is LL(1)."
MsgSLR1 == "Grammar is SLR(1)."
MsgSelect == "Select a parser (T: for LL(1), B: for SLR(1), Q: quit):"
MsgInvalid == "Invalid choice, try T, B, or Q."

\* aug of main, once the grammar is augmented
aug == grammar[1].nt

\* slr_res is not None: construct_slr_table has no return but the pair
slr_verdict(slr_res) == TRUE

\* what a run of the program computed, for the comparison of two runs
Computed == [is_ll1 |-> is_ll1, is_slr1 |-> is_slr1,
             ll1_table |-> ll1_table, slr_table |-> slr_table,
             states |-> states, trans |-> trans]

Init ==
    /\ pc = "start"
    /\ raw \in Grammars
    /\ grammar = raw
    /\ first = <<>>
    /\ follow = <<>>
    /\ is_ll1 = FALSE
    /\ ll1_table = <<>>
    /\ states = <<>>
    /\ trans = <<>>
    /\ slr_table = <<>>
    /\ slr_prods = <<>>
    /\ is_slr1 = FALSE
    /\ out = ""
    /\ sim = NoSim
    /\ run = 1
    /\ prev = <<>>

\* Start without the test of line 316
StartUntested ==
    /\ pc = "start"
    /\ grammar' = Augment(grammar)
    /\ first' = EmptySets(grammar')
    /\ pc' = "first"
    /\ out' = out
    /\ UNCHANGED <<follow, is_ll1, ll1_table, states, trans, slr_table,
                   slr_prods, is_slr1, sim, raw, run, prev>>

\* lines 315-323: the productivity test, then the augmented grammar
Start ==
    /\ pc = "start"
    /\ IF grammar[1].nt \notin productive_nts(grammar)
       THEN /\ out' = MsgNeither
            /\ pc' = "done"
            /\ UNCHANGED <<grammar, first>>
       ELSE /\ grammar' = Augment(grammar)
            /\ first' = EmptySets(grammar')
            /\ pc' = "first"
            /\ out' = out
    /\ UNCHANGED <<follow, is_ll1, ll1_table, states, trans, slr_table,
                   slr_prods, is_slr1, sim, raw, run, prev>>

\* one pass of the while loop of calculate_first_sets; after the pass that
\* changes nothing the function returns and calculate_follow_sets begins
FirstPass ==
    /\ pc = "first"
    /\ LET r == first_pass(ProdList(grammar), 1, first, FALSE)
       IN  /\ first' = r[1]
           /\ IF r[2]
              THEN pc' = "first" /\ follow' = follow
              ELSE pc' = "follow" /\ follow' = FollowSeed(grammar, aug)
    /\ UNCHANGED <<grammar, is_ll1, ll1_table, states, trans, slr_table,
                   slr_prods, is_slr1, out, sim, raw, run, prev>>

\* one pass of the while loop of calculate_follow_sets
FollowPass ==
    /\ pc = "follow"
    /\ LET r == follow_pass(grammar, first, ProdList(grammar), 1, follow, FALSE)
       IN  /\ follow' = r[1]
           /\ pc' = IF r[2] THEN "follow" ELSE "check"
    /\ UNCHANGED <<grammar, first, is_ll1, ll1_table, states, trans,
                   slr_table, slr_prods, is_slr1, out, sim, raw, run, prev>>

\* lines 327-329
CheckLL1 ==
    /\ pc = "check"
    /\ is_ll1' = check_ll1(grammar, first, follow)
    /\ ll1_table' = IF is_ll1' THEN build_ll1_table(grammar, first, follow)
                    ELSE ll1_table
    /\ pc' = "lr0"
    /\ UNCHANGED <<grammar, first, follow, states, trans, slr_table,
                   slr_prods, is_slr1, out, sim, raw, run, prev>>

\* line 331
BuildLR0 ==
    /\ pc = "lr0"
    /\ \E ord \in SymbolOrders :
         \E r \in calculate_canonical_lr0(grammar, aug, ord) :
            /\ states' = r[1]
            /\ trans' = r[2]
    /\ pc' = "slr"
    /\ UNCHANGED <<grammar, first, follow, is_ll1, ll1_table, slr_table,
                   slr_prods, is_slr1, out, sim, raw, run, prev>>

\* lines 332-335
BuildSLR ==
    /\ pc = "slr"
    /\ \E slr_res \in construct_slr_table(states, trans, grammar, follow, aug) :
         /\ is_slr1' = slr_verdict(slr_res)
         /\ IF is_slr1'
            THEN slr_table' = slr_res[1] /\ slr_prods' = slr_res[2]
            ELSE UNCHANGED <<slr_table, slr_prods>>
    /\ pc' = "dispatch"
    /\ UNCHANGED <<grammar, first, follow, is_ll1, ll1_table, states, trans,
                   out, sim, raw, run, prev>>

\* lines 339-371: what main prints first and where it goes.  In "tests" a
\* batch of test strings is run with the parser sim.mode names.
Dispatch ==
    /\ pc = "dispatch"
    /\ IF ~is_ll1 /\ ~is_slr1
       THEN out' = MsgNeither /\ pc' = "done" /\ sim' = sim
       ELSE IF is_ll1 /\ ~is_slr1
       THEN out' = MsgLL1 /\ pc' = "tests" /\ sim' = [NoSim EXCEPT !.mode = "ll"]
       ELSE IF is_slr1 /\ ~is_ll1
       THEN out' = MsgSLR1 /\ pc' = "tests" /\ sim' = [NoSim EXCEPT !.mode = "lr"]
       ELSE out' = MsgSelect /\ pc' = "menu" /\ sim' = sim
    /\ UNCHANGED <<grammar, first, follow, is_ll1, ll1_table, states, trans,
                   slr_table, slr_prods, is_slr1, raw, run, prev>>

\* lines 372-394: the answer to the prompt
Choose(choice) ==
    /\ pc = "menu"
    /\ IF choice = "Q" THEN pc' = "done" /\ UNCHANGED <<out, sim>>
       ELSE IF choice = "T"
       THEN pc' = "tests" /\ sim' = [NoSim EXCEPT !.mode = "ll"] /\ out' = out
       ELSE IF choice = "B"
       THEN pc' = "tests" /\ sim' = [NoSim EXCEPT !.mode = "lr"] /\ out' = out
       ELSE pc' = "menu" /\ out' = MsgInvalid /\ sim' = sim
    /\ UNCHANGED <<grammar, first, follow, is_ll1, ll1_table, states, trans,
                   slr_table, slr_prods, is_slr1, raw, run, prev>>

\* a call of the chosen simulator on the test string s (lines 353, 366,
\* 383, 392)
StartParse(s) ==
    /\ pc = "tests"
    /\ sim' = IF sim.mode = "ll" THEN predictive_init(s, aug) ELSE lr_init(s)
    /\ pc' = "parse"
    /\ UNCHANGED <<grammar, first, follow, is_ll1, ll1_table, states, trans,
                   slr_table, slr_prods, is_slr1, out, raw, run, prev>>

\* PredictiveStep with `prod.reverse()` in place of `reversed(prod)`: the
\* list the table holds is reversed
PredictiveStepReversing ==
    /\ pc = "parse"
    /\ sim.mode = "ll"
    /\ sim.res = "run"
    /\ sim' = predictive_step(ll1_table, sim)
    /\ LET top == Head(sim.stack)
           cur == sim.inp[sim.ip + 1]
       IN  ll1_table' =
             IF sim.stack # <<>> /\ top # cur /\ top \in DOMAIN ll1_table
                /\ cur \in DOMAIN ll1_table[top]
             THEN [ll1_table EXCEPT ![top][cur] = Reverse(@)]
             ELSE ll1_table
    /\ UNCHANGED <<pc, grammar, first, follow, is_ll1, states,
                   trans, slr_table, slr_prods, is_slr1, out, raw, run, prev>>

PredictiveStep ==
    /\ pc = "parse"
    /\ sim.mode = "ll"
    /\ sim.res = "run"
    /\ sim' = predictive_step(ll1_table, sim)
    /\ UNCHANGED <<pc, grammar, first, follow, is_ll1, ll1_table, states,
                   trans, slr_table, slr_prods, is_slr1, out, raw, run, prev>>

LrStep ==
    /\ pc = "parse"
    /\ sim.mode = "lr"
    /\ sim.res = "run"
    /\ sim' = lr_step(slr_table, slr_prods, sim)
    /\ UNCHANGED <<pc, grammar, first, follow, is_ll1, ll1_table, states,
                   trans, slr_table, slr_prods, is_slr1, out, raw, run, prev>>

\* the call returns and "yes" or "no" is printed, or the exception it
\* raised ends the program; the locals of the call are gone
Return ==
    /\ pc = "parse"
    /\ sim.res \in {"yes", "no", "error"}
    /\ pc' = IF sim.res = "error" THEN "crashed" ELSE "tests"
    /\ out' = IF sim.res = "error" THEN out ELSE sim.res
    /\ sim' = [NoSim EXCEPT !.mode = sim.mode]
    /\ UNCHANGED <<grammar, first, follow, is_ll1, ll1_table, states, trans,
                   slr_table, slr_prods, is_slr1, raw, run, prev>>

\* the batch is over: main returns, or prompts again when both parsers apply
EndTests ==
    /\ pc = "tests"
    /\ IF is_ll1 /\ is_slr1
       THEN pc' = "menu" /\ out' = MsgSelect
       ELSE pc' = "done" /\ out' = out
    /\ sim' = NoSim
    /\ UNCHANGED <<grammar, first, follow, is_ll1, ll1_table, states, trans,
                   slr_table, slr_prods, is_slr1, raw, run, prev>>

\* the program is run again on the grammar it was given
Rerun ==
    /\ pc = "done"
    /\ run < MaxRuns
    /\ run' = run + 1
    /\ prev' = Computed
    /\ pc' = "start"
    /\ grammar' = raw
    /\ first' = <<>>
    /\ follow' = <<>>
    /\ is_ll1' = FALSE
    /\ ll1_table' = <<>>
    /\ states' = <<>>
    /\ trans' = <<>>
    /\ slr_table' = <<>>
    /\ slr_prods' = <<>>
    /\ is_slr1' = FALSE
    /\ out' = ""
    /\ sim' = NoSim
    /\ raw' = raw

Next ==
    \/ Start
    \/ FirstPass
    \/ FollowPass
    \/ CheckLL1
    \/ BuildLR0
    \/ BuildSLR
    \/ Dispatch
    \/ \E choice \in {"T", "B", "Q", "X"} : Choose(choice)
    \/ \E s \in Inputs : StartParse(s)
    \/ PredictiveStep
    \/ LrStep
    \/ Return
    \/ EndTests

Spec == Init /\ [][Next]_vars

\* two runs of the program on one grammar
NextTwice == Next \/ Rerun

SpecTwice == Init /\ [][NextTwice]_vars

\* The fixed-point loops alone.  Their passes follow one another without
\* waiting for anything, so a pass that can be made is made.
NextSets == Start \/ FirstPass \/ FollowPass \/ CheckLL1

LiveSpec == Init /\ [][NextSets]_vars
                 /\ WF_vars(FirstPass) /\ WF_vars(FollowPass)

---------------------------------------------------------------------------
(* Claims. *)

\* main() has computed both verdicts and both tables
Classified ==
    /\ pc \in {"dispatch", "menu", "tests", "parse", "done", "crashed"}
    /\ states # <<>>

\* some cell of the SLR(1) table is written with two different actions
HasClash ==
    \E i \in 0..(Len(states) - 1) :
        clashing(writers_of(i, states[i + 1], trans, slr_productions(grammar),
                            follow, aug)) # {}

GrammarSSa == <<[nt |-> "S", alts |-> << <<"S", "S">>, <<"a">> >>]>>

\* C1: a grammar for which the construction of the SLR(1) table proposes
\* two different actions for one (state, symbol) cell is reported as not
\* SLR(1); for S -> SS | a the LL(1) verdict and the SLR(1) verdict are
\* both false.
C1_ClashMeansNotSLR1 ==
    /\ (Classified /\ HasClash) => ~is_slr1
    /\ (Classified /\ raw = GrammarSSa) => (~is_ll1 /\ ~is_slr1)

\* C2: for a grammar classified as both LL(1) and SLR(1), predictive_parse
\* returns true for a string exactly when lr_parse does.
C2_SameLanguage ==
    (pc = "parse" /\ is_ll1 /\ is_slr1 /\ sim.res \in {"yes", "no"}) =>
        IF sim.mode = "ll"
        THEN (sim.res = "yes") <=>
             (lr_parse(sim.s, slr_table, slr_prods) = "yes")
        ELSE (sim.res = "yes") <=>
             (predictive_parse(ll1_table, sim.s, aug) = "yes")

\* C3: for a grammar for which check_ll1 returns true, predictive_parse on
\* the table of build_ll1_table returns for every input: it never expands
\* nonterminals without end.
C3_PredictiveParseReturns ==
    (pc = "parse" /\ is_ll1 /\ sim.mode = "ll") => sim.res # "loop"

\* C4: for a grammar for which check_ll1 returns true, build_ll1_table
\* never assigns two different productions to one cell table[A][a].
C4_NoCellWrittenTwice ==
    (pc \notin {"start", "first", "follow", "check"} /\ is_ll1) =>
        \A A \in NTs(grammar) :
            \A i, j \in DOMAIN Alts(grammar, A) :
                (i < j /\ Alts(grammar, A)[i] # Alts(grammar, A)[j]) =>
                    ll1_cells(first, follow, A, Alts(grammar, A)[i])
                    \cap ll1_cells(first, follow, A, Alts(grammar, A)[j]) = {}

\* two alternatives of one nonterminal whose FIRST sets, as first_of_string
\* computes them from the final first, intersect
FirstSetsIntersect(g, fst) ==
    \E A \in NTs(g) :
        \E i, j \in DOMAIN Alts(g, A) :
            /\ i < j
            /\ first_of_string(Alts(g, A)[i], fst)
               \cap first_of_string(Alts(g, A)[j], fst) # {}

RawFirstSetsIntersect ==
    FirstSetsIntersect(Augment(raw), calculate_first_sets(Augment(raw)))

\* C5: when two alternatives of a nonterminal have intersecting FIRST sets,
\* check_ll1 returns false and the program never reports the grammar as
\* LL(1): it never prints "Grammar is LL(1).", never offers the choice of
\* parser and never runs the predictive parser.
C5_NeverReportedLL1 ==
    RawFirstSetsIntersect =>
        /\ ~is_ll1
        /\ out # MsgLL1
        /\ out # MsgSelect
        /\ pc # "menu"
        /\ sim.mode # "ll"

\* the grammar is classified with intersecting FIRST sets and lr_parse, the
\* only parser offered, has accepted a string
C5_Witness ==
    /\ RawFirstSetsIntersect
    /\ pc = "parse"
    /\ sim.mode = "lr"
    /\ sim.res = "yes"

HasEpsilonProduction ==
    \E k \in DOMAIN raw : <<"e">> \in Range(raw[k].alts)

\* C6: for a grammar with a production A -> e, neither simulator moves the
\* input cursor over an 'e', and no input that contains 'e' is accepted.
C6_EpsilonNeverConsumed ==
    (pc = "parse" /\ HasEpsilonProduction) =>
        /\ \A k \in 1..sim.ip : sim.inp[k] # "e"
        /\ sim.res = "yes" => "e" \notin Range(sim.s)

\* no pass of either fixed-point loop removes an element from a set
GrowingPass ==
    /\ pc = "first" => \A A \in DOMAIN first : first[A] \subseteq first'[A]
    /\ pc = "follow" => \A A \in DOMAIN follow : follow[A] \subseteq follow'[A]

SetsOnlyGrow == [][GrowingPass]_vars

\* C7: the fixed-point loops of calculate_first_sets and
\* calculate_follow_sets terminate, and every pass leaves each first[A] and
\* each follow[A] a superset of what it was before the pass.
C7_FixedPointsGrowAndEnd ==
    /\ SetsOnlyGrow
    /\ (pc = "first") ~> (pc = "follow")
    /\ (pc = "follow") ~> (pc = "check")

\* both loops have ended with sets that grew over several passes
C7_Witness ==
    /\ pc = "check"
    /\ \E A \in DOMAIN first :
          Cardinality(first[A]) >= 2 /\ Cardinality(follow[A]) >= 2

\* C8: two runs of the classification on one grammar give the same LL(1)
\* and SLR(1) verdicts and the same LL(1) and SLR(1) tables, whatever the
\* order in which the items of a state are enumerated: even when both runs
\* number the states alike, the action kept in a cell is the same.
C8_SameResultTwice ==
    (run = 2 /\ Classified /\ states = prev.states /\ trans = prev.trans) =>
        Computed = prev

\* C9: state 0 is the closure of the item (S' -> .S), every state is closed
\* under calculate_closure, and no two indices of the state list hold the
\* same item set.
C9_StatesClosedAndDistinct ==
    (pc \notin {"start", "first", "follow", "check", "lr0"} /\ states # <<>>) =>
        /\ states[1] = calculate_closure({<<aug, <<raw[1].nt>>, 0>>}, grammar)
        /\ \A i \in DOMAIN states :
               calculate_closure(states[i], grammar) = states[i]
        /\ \A i, j \in DOMAIN states : i # j => states[i] # states[j]

\* a step taken while test strings are run changes neither table, nor the
\* production list, nor the grammar
TablesKept ==
    /\ ll1_table' = ll1_table
    /\ slr_table' = slr_table
    /\ slr_prods' = slr_prods
    /\ grammar' = grammar

TestStepKeepsTables == pc \in {"tests", "parse"} => TablesKept

TablesUntouched == [][TestStepKeepsTables]_vars

\* what a call ends with is what the call does on the tables as they are,
\* whatever calls were made before it
VerdictFromTableAlone ==
    (pc = "parse" /\ sim.res # "run") =>
        sim.res = IF sim.mode = "ll"
                  THEN predictive_parse(ll1_table, sim.s, aug)
                  ELSE lr_parse(sim.s, slr_table, slr_prods)

\* C10: a run of either simulator leaves the parse tables and the production
\* list unchanged, so the verdict for a string is the same whatever strings
\* were simulated before it.
C10_SimulatorsLeaveTables ==
    TablesUntouched /\ []VerdictFromTableAlone

\* a call rejects its string after an earlier call on the same tables has
\* printed "yes"
C10_Witness ==
    /\ pc = "parse"
    /\ sim.res = "no"
    /\ out = "yes"

\* the LL(1) verdict has been computed
Checked == pc \notin {"start", "first", "follow", "check"}

GrammarSaa == <<[nt |-> "S", alts |-> << <<"S", "a">>, <<"a">> >>]>>

\* C11: for the left-recursive grammar S -> Sa | a the LL(1) verdict is
\* false, the SLR(1) verdict is true, and lr_parse on the SLR(1) table
\* accepts the string aaa.
C11_LeftRecursiveIsSLR1 ==
    raw = GrammarSaa =>
        /\ Checked => ~is_ll1
        /\ Classified =>
              /\ is_slr1
              /\ lr_parse(<<"a", "a", "a">>, slr_table, slr_prods) = "yes"
        /\ (pc = "parse" /\ sim.s = <<"a", "a", "a">> /\ sim.res # "run") =>
              (sim.mode = "lr" /\ sim.res = "yes")

\* the program has printed "Grammar is SLR(1)." for S -> Sa | a and its
\* call of lr_parse on aaa has returned True
C11_Witness ==
    /\ raw = GrammarSaa
    /\ pc = "parse"
    /\ sim.mode = "lr"
    /\ sim.s = <<"a", "a", "a">>
    /\ sim.res = "yes"

GrammarSAB == << [nt |-> "S", alts |-> << <<"A", "B">> >>],
                 [nt |-> "A", alts |-> << <<"a">> >>],
                 [nt |-> "B", alts |-> << <<"b">> >>] >>

\* C12: for the grammar S -> AB, A -> a, B -> b both verdicts are true,
\* both simulators accept ab and both simulators reject ba.
C12_BothAcceptAbRejectBa ==
    raw = GrammarSAB =>
        /\ Checked => is_ll1
        /\ Classified =>
              /\ is_slr1
              /\ predictive_parse(ll1_table, <<"a", "b">>, aug) = "yes"
              /\ lr_parse(<<"a", "b">>, slr_table, slr_prods) = "yes"
              /\ predictive_parse(ll1_table, <<"b", "a">>, aug) = "no"
              /\ lr_parse(<<"b", "a">>, slr_table, slr_prods) = "no"
        /\ (pc = "parse" /\ sim.s = <<"a", "b">> /\ sim.res # "run") =>
              sim.res = "yes"
        /\ (pc = "parse" /\ sim.s = <<"b", "a">> /\ sim.res # "run") =>
              sim.res = "no"

\* the menu was shown for S -> AB, A -> a, B -> b, an earlier call has
\* printed "yes", and the predictive parser has now rejected ba
C12_Witness ==
    /\ raw = GrammarSAB
    /\ pc = "parse"
    /\ sim.mode = "ll"
    /\ sim.s = <<"b", "a">>
    /\ sim.res = "no"
    /\ out = "yes"

\* the nonterminals that derive the empty string: those with the production
\* A -> e and those with an alternative made only of such nonterminals
RECURSIVE DerivesEmptyFrom(_, _)
DerivesEmptyFrom(g, N) ==
    LET next == N \cup
            {A \in NTs(g) :
                \E i \in DOMAIN Alts(g, A) :
                    \/ Alts(g, A)[i] = <<"e">>
                    \/ \A n \in DOMAIN Alts(g, A)[i] : Alts(g, A)[i][n] \in N}
    IN  IF next = N THEN N ELSE DerivesEmptyFrom(g, next)

DerivesEmpty(g) == DerivesEmptyFrom(g, {})

\* C13: once calculate_first_sets has returned, first[A] holds the epsilon
\* marker for every nonterminal A with an epsilon production and for every
\* A with an alternative made only of such nonterminals; from the seeding
\* of follow on, in every pass of the FOLLOW loop and after it, follow of
\* the augmented start holds '$'.
C13_EpsilonInFirstEndInFollow ==
    (pc \notin {"start", "first"} /\ grammar # raw) =>
        /\ \A A \in DerivesEmpty(grammar) : "e" \in first[A]
        /\ "$" \in follow[aug]

\* the FOLLOW loop is between two passes, for a grammar in which a
\* nonterminal without an epsilon production derives the empty string
C13_Witness ==
    /\ pc = "follow"
    /\ \E A \in DerivesEmpty(grammar) \ {aug} :
          <<"e">> \notin Range(Alts(grammar, A))
    /\ \E A \in NTs(raw) : follow[A] # {}

\* the stages of main in the order of the code; 6 is all that follows the
\* construction of the SLR(1) table
StageOf(p) ==
    CASE p = "start" -> 0
      [] p = "first" -> 1
      [] p = "follow" -> 2
      [] p = "check" -> 3
      [] p = "lr0" -> 4
      [] p = "slr" -> 5
      [] OTHER -> 6

StartIsProductive == raw[1].nt \in productive_nts(raw)

\* what each stage has left behind, and nothing of a stage not yet run
StagesDone ==
    IF StartIsProductive
    THEN /\ StageOf(pc) <= 1 => DOMAIN follow = {}
         /\ StageOf(pc) >= 2 => DOMAIN follow = NTs(grammar)
         /\ StageOf(pc) <= 3 => ~is_ll1 /\ DOMAIN ll1_table = {}
         /\ StageOf(pc) <= 4 => states = <<>> /\ DOMAIN trans = {}
         /\ StageOf(pc) >= 5 => states # <<>>
         /\ StageOf(pc) <= 5 => slr_table = <<>> /\ sim = NoSim /\ out = ""
         /\ StageOf(pc) >= 6 => slr_table # <<>>
    ELSE /\ pc \in {"start", "done"}
         /\ pc = "done" => out = MsgNeither
         /\ grammar = raw
         /\ DOMAIN first = {} /\ DOMAIN follow = {}
         /\ ~is_ll1 /\ DOMAIN ll1_table = {}
         /\ states = <<>> /\ DOMAIN trans = {}
         /\ ~is_slr1 /\ slr_table = <<>>
         /\ sim = NoSim

\* a step goes to the next stage or stays in the one it is in
StageStep ==
    IF StartIsProductive
    THEN \/ StageOf(pc') = StageOf(pc)
         \/ StageOf(pc) < 6 /\ StageOf(pc') = StageOf(pc) + 1
    ELSE pc = "start" /\ pc' = "done" /\ out' = MsgNeither

StagesInOrder == [][StageStep]_vars

BeginsAt(g, B, alt, n) ==
    IF alt[n] \in NTs(g) THEN B[alt[n]]
    ELSE IF alt[n] = "e" THEN {}
    ELSE {alt[n]}

\* The terminals a derivation from each nonterminal can begin with: t begins
\* A when A has an alternative in which t, or a nonterminal t begins, stands
\* behind nonterminals that all derive the empty string.
RECURSIVE BeginsFrom(_, _)
BeginsFrom(g, B) ==
    LET AltBegins(alt) ==
            UNION {IF \A m \in 1..(n - 1) : alt[m] \in DerivesEmpty(g)
                   THEN BeginsAt(g, B, alt, n)
                   ELSE {} : n \in DOMAIN alt}
        next == [A \in NTs(g) |->
                    UNION {AltBegins(Alts(g, A)[i]) : i \in DOMAIN Alts(g, A)}]
    IN  IF next = B THEN B ELSE BeginsFrom(g, next)

Begins(g) == BeginsFrom(g, [A \in NTs(g) |-> {}])

\* C15: on return from calculate_first_sets, first[A] is the union of
\* first_of_string over the alternatives of A, and it is the least such
\* assignment: a terminal is in first[A] only if a derivation from A begins
\* with it, and the epsilon marker only if A derives the empty string.
C15_FirstIsLeastFixedPoint ==
    (pc \in {"follow", "check", "lr0"}) =>
        \A A \in NTs(grammar) :
            /\ first[A] = UNION {first_of_string(Alts(grammar, A)[i], first) :
                                    i \in DOMAIN Alts(grammar, A)}
            /\ first[A] \ {"e"} = Begins(grammar)[A]
            /\ "e" \in first[A] <=> A \in DerivesEmpty(grammar)

\* calculate_first_sets has returned sets of which one holds a terminal
\* beside the epsilon marker and another two terminals without it
C15_Witness ==
    /\ pc = "follow"
    /\ \E A \in NTs(grammar) : "e" \in first[A] /\ Cardinality(first[A]) >= 2
    /\ \E A \in NTs(grammar) : "e" \notin first[A] /\ Cardinality(first[A]) >= 2

\* C16: lr_parse on the table of construct_slr_table returns for every
\* input: from no locals a call can reach does the loop come back to locals
\* it has had.
C16_LrParseReturns ==
    (pc = "parse" /\ sim.mode = "lr" /\ sim.res = "run") =>
        lr_run(slr_table, slr_prods, sim, {}) # "loop"

\* C17: neither simulator accepts an input string in which a nonterminal of
\* the grammar occurs.
C17_NoNonterminalInAcceptedInput ==
    (pc = "parse" /\ sim.res = "yes") =>
        \A k \in DOMAIN sim.s : sim.s[k] \notin NTs(grammar)

\* lr_parse is about to reduce; what it reduces by
ReducePending ==
    /\ pc = "parse"
    /\ sim.mode = "lr"
    /\ sim.res = "run"
    /\ sim.stack # <<>>
    /\ sim.inp[sim.ip + 1] \in DOMAIN slr_table[sim.stack[Len(sim.stack)] + 1]
    /\ slr_table[sim.stack[Len(sim.stack)] + 1][sim.inp[sim.ip + 1]][1] = "reduce"

PendingProduction ==
    slr_prods[slr_table[sim.stack[Len(sim.stack)] + 1][sim.inp[sim.ip + 1]][2] + 1]

\* the state the reduce exposes
ExposedState ==
    sim.stack[Len(sim.stack) - Len(PendingProduction[2])]

\* C18: in every step of lr_parse the stack is not empty and has state 0 at
\* the bottom; when a reduce by A -> beta is applied the stack holds more
\* than |beta| states and the state it exposes has an entry for A that is
\* tagged shift, so slr_table[t][A][1] never fails; the entry of a
\* nonterminal is never a reduce or an accept.
C18_ReduceFindsGoto ==
    /\ (pc = "parse" /\ sim.mode = "lr") =>
          /\ sim.stack # <<>>
          /\ sim.stack[1] = 0
          /\ sim.res # "error"
    /\ pc # "crashed"
    /\ ReducePending =>
          /\ Len(sim.stack) > Len(PendingProduction[2])
          /\ PendingProduction[1] \in DOMAIN slr_table[ExposedState + 1]
          /\ slr_table[ExposedState + 1][PendingProduction[1]][1] = "shift"
    /\ Classified =>
          \A i \in DOMAIN slr_table :
              \A A \in NTs(grammar) \cap DOMAIN slr_table[i] :
                  slr_table[i][A][1] = "shift"

\* lr_parse is about to reduce by a production with two symbols on the
\* right, after it has moved over two input symbols
C18_Witness ==
    /\ ReducePending
    /\ Len(PendingProduction[2]) = 2
    /\ sim.ip >= 2

====
